---- MODULE Spec2Model ----
(***************************************************************************)
(* State-machine model of the CyberFit membership application.             *)
(*                                                                         *)
(* The repository holds two builds of the same Flask application:          *)
(*   src/app.py     entitlement column `premium`, set by POST /webhook     *)
(*                  after a re-query of the payment gateway;               *)
(*   src/app.py.py  entitlement column `pagou`, set by GET                 *)
(*                  /pagamento-sucesso for the logged-in account; it has   *)
(*                  no webhook route.                                      *)
(* The variable `deploy` says which build is running; it never changes.    *)
(* The entitlement column is called `premium` for both builds.             *)
(***************************************************************************)
EXTENDS Integers, Sequences, FiniteSets, Bags, TLC

\* ------------------------------------------------------------------ bounds
MaxUsuarios == 2      \* rows the table may hold
MaxTokens   == 1      \* reset tokens in the mailbox
MaxInflight == 3      \* requests between their read and their commit

\* ------------------------------------------------------- program constants
max_age == 3600       \* s.loads(..., max_age=3600)

\* -------------------------------------------------------------- input sets
\* An e-mail address is a sequence of characters, so that the format check of
\* registrar can be computed on it.
E1 == <<"a", "@", "x", ".", "c">>
E2 == <<"b", "@", "x", ".", "c">>
E3 == <<"a", "@", "x">>
NoEmail == <<>>
Emails == {E1, E2, E3}
Senhas == {"p1", "p2"}
Salts == {"s1"}
Clients == {"c1"}
PaymentIds == {"123"}
NoId == "none"
Builds == {"app.py", "app.py.py"}
\* The instants at which requests arrive: the clock jumps from one to a later one.
Instants == {0, 1, max_age, max_age + 1}

VARIABLES
    deploy,       \* which build is running
    usuarios,     \* the table Usuario: a sequence of rows, row i has id i
    session,      \* Flask-Login: client -> user id, 0 when anonymous
    mailbox,      \* reset tokens that were mailed
    clock,        \* time in seconds, as int(time.time())
    inflight,     \* bag of requests that queried the table and did not commit yet
    confirmados,  \* history: e-mails the webhook printed a confirmation for
    response      \* the response to the last request

vars == <<deploy, usuarios, session, mailbox, clock, inflight,
          confirmados, response>>

\* ------------------------------------------------------------------ helpers
R(route, status, body, flash, log) ==
    [route |-> route, status |-> status, body |-> body, flash |-> flash, log |-> log]

NoLog == <<"">>

\* re.match(r"[^@]+@[^@]+\.[^@]+", email): anchored at the start only.
NoAt(s, i, j) == \A k \in i..j : s[k] # "@"

email_valido(s) ==
    \E i \in 1..Len(s), j \in 1..Len(s) :
        /\ NoAt(s, 1, i)
        /\ i + 1 <= Len(s) /\ s[i + 1] = "@"
        /\ j >= i + 2 /\ NoAt(s, i + 2, j)
        /\ j + 2 <= Len(s) /\ s[j + 1] = "." /\ s[j + 2] # "@"

\* bcrypt.hashpw(senha, salt) and bcrypt.checkpw(senha, hash)
hashpw(senha, salt) == <<"2b", salt, senha>>
checkpw(senha, hash) == hashpw(senha, hash[2]) = hash

\* Usuario.query.filter_by(email=email).first(): id of the first row, 0 for None
filter_by_email(db, email) ==
    IF \E i \in 1..Len(db) : db[i].email = email
    THEN CHOOSE i \in 1..Len(db) :
            /\ db[i].email = email
            /\ \A k \in 1..(i - 1) : db[k].email # email
    ELSE 0

\* Usuario(email=..., senha=...): premium/pagou default False
Usuario(email, senha) == [email |-> email, senha |-> senha, premium |-> FALSE]

\* email = db.Column(..., unique=True): the INSERT fails on a duplicate
unique_ok(db, email) == \A i \in 1..Len(db) : db[i].email # email

\* db.session.add(usuario); db.session.commit()
insert(db, row) == Append(db, row)

\* Faults of the flush: an UPDATE without its WHERE clause; an UPDATE that writes
\* every column of the loaded object back.
set_premium_all(db, uid, obj) == [i \in DOMAIN db |-> [db[i] EXCEPT !.premium = TRUE]]

set_premium_row(db, uid, obj) == [db EXCEPT ![uid] = [obj EXCEPT !.premium = TRUE]]

\* usuario.premium = True; db.session.commit().  obj is the object the query
\* loaded; the flush writes the attribute that was set and no other:
\* UPDATE usuario SET premium=1 WHERE id=uid
set_premium(db, uid, obj) == [db EXCEPT ![uid].premium = TRUE]

\* usuario.senha = hash; db.session.commit(): UPDATE usuario SET senha=? WHERE id=uid
set_senha(db, uid, obj, hash) == [db EXCEPT ![uid].senha = hash]

\* @login_required with no login_view configured: Flask-Login aborts with 401
unauthorized(route) == R(route, 401, "Unauthorized", "", NoLog)

\* ---------------------------------------------------------------- state
Init ==
    /\ deploy \in Builds
    /\ usuarios = <<>>
    /\ session = [c \in Clients |-> 0]
    /\ mailbox = {}
    /\ clock = 0
    /\ inflight = EmptyBag
    /\ confirmados = {}
    /\ response = R("", 0, "", "", NoLog)

\* ------------------------------------------------------------ Token Signer
\* s.dumps(email, salt='recuperar-senha'): payload, issue time, signature
dumps(payload, salt, now) ==
    [payload |-> payload, ts |-> now, sig |-> <<payload, now, salt>>]

\* Fault: a token is taken as expired at the age max_age already.
loads_early(token, salt, maxage, now) ==
    IF token.sig # <<token.payload, token.ts, salt>> THEN "BadSignature"
    ELSE IF now - token.ts >= maxage THEN "SignatureExpired"
    ELSE "ok"

\* s.loads(token, salt=..., max_age=...): the signature is checked first, then the age
loads(token, salt, maxage, now) ==
    IF token.sig # <<token.payload, token.ts, salt>> THEN "BadSignature"
    ELSE IF now - token.ts > maxage THEN "SignatureExpired"
    ELSE "ok"

\* What a client can present as a token: a mailed one, one with the payload
\* replaced, one signed for another purpose.
Presentable ==
    mailbox
    \cup {[t EXCEPT !.payload = e] : t \in mailbox, e \in Emails}
    \cup {dumps(t.payload, "outro", t.ts) : t \in mailbox}

\* ------------------------------------------------------------ view functions
\* Each returns the table after the request and the response.

\* registrar, the part after the existence check: add + commit
registrar_commit(db, email, hash) ==
    IF unique_ok(db, email)
    THEN [db |-> insert(db, Usuario(email, hash)),
          resp |-> R("/registrar", 302, "redirect:/login",
                     "Cadastro realizado com sucesso!", NoLog)]
    ELSE [db |-> db,
          resp |-> R("/registrar", 500, "IntegrityError", "", NoLog)]

\* registrar, up to the existence check: "go" when the insert is to follow
registrar_check(build, db, method, email) ==
    IF method = "GET"
    THEN R("/registrar", 200, "render:registrar.html", "", NoLog)
    ELSE IF build = "app.py" /\ ~email_valido(email)
    THEN R("/registrar", 302, "redirect:/registrar", "E-mail invalido.", NoLog)
    ELSE IF filter_by_email(db, email) # 0
    THEN R("/registrar", 302, "redirect:/registrar",
           "Este e-mail ja esta cadastrado.", NoLog)
    ELSE R("/registrar", 0, "go", "", NoLog)

registrar_view(build, db, method, email, senha, salt) ==
    LET chk == registrar_check(build, db, method, email) IN
    IF chk.body = "go"
    THEN registrar_commit(db, email, hashpw(senha, salt))
    ELSE [db |-> db, resp |-> chk]

\* login: uid is the session's user after the request
login_view(build, db, uid0, method, email, senha) ==
    LET u == filter_by_email(db, email) IN
    IF method = "GET"
    THEN [uid |-> uid0, resp |-> R("/login", 200, "render:login.html", "", NoLog)]
    ELSE IF u # 0 /\ checkpw(senha, db[u].senha)
    THEN [uid |-> u,
          resp |-> R("/login", 302,
                     IF build = "app.py" /\ db[u].premium
                     THEN "redirect:/calculadora" ELSE "redirect:/pagamento",
                     "", NoLog)]
    ELSE [uid |-> uid0,
          resp |-> R("/login", 200, "render:login.html", "Login invalido", NoLog)]

\* preco = 10 if aluno == 'sim' else 15
preco(aluno) == IF aluno = "sim" THEN "10" ELSE "15"

\* pagamento: pref is what sdk.preference().create returned
pagamento_view(build, db, uid, method, aluno, pref) ==
    IF uid = 0 THEN unauthorized("/pagamento")
    ELSE IF build = "app.py" /\ db[uid].premium
    THEN R("/pagamento", 302, "redirect:/calculadora", "", NoLog)
    ELSE IF method = "GET"
    THEN R("/pagamento", 200, "render:pagamento.html", "", NoLog)
    ELSE IF pref = "init_point"
    THEN R("/pagamento", 302, "redirect:init_point", "", <<"unit_price", preco(aluno)>>)
    ELSE R("/pagamento", 302, "redirect:/pagamento",
           "Erro ao gerar link de pagamento.", <<"unit_price", preco(aluno)>>)

\* liberando_acesso (app.py): renders a page, writes nothing
liberando_acesso_view(db, uid) ==
    IF uid = 0
    THEN [db |-> db, resp |-> unauthorized("/liberando-acesso")]
    ELSE [db |-> db,
          resp |-> R("/liberando-acesso", 200, "render:liberando_acesso.html", "", NoLog)]

\* Fault: the first row is written instead of the current user's.
pagamento_sucesso_first(db, uid) ==
    IF uid = 0
    THEN [db |-> db, resp |-> unauthorized("/pagamento-sucesso")]
    ELSE [db |-> set_premium(db, 1, db[1]),
          resp |-> R("/pagamento-sucesso", 302, "redirect:/calculadora",
                     "Pagamento confirmado com sucesso! Acesso liberado.", NoLog)]

\* pagamento_sucesso (app.py.py): current_user.pagou = True; commit
pagamento_sucesso_view(db, uid) ==
    IF uid = 0
    THEN [db |-> db, resp |-> unauthorized("/pagamento-sucesso")]
    ELSE [db |-> set_premium(db, uid, db[uid]),
          resp |-> R("/pagamento-sucesso", 302, "redirect:/calculadora",
                     "Pagamento confirmado com sucesso! Acesso liberado.", NoLog)]

falhou_view(uid) ==
    IF uid = 0 THEN unauthorized("/falhou")
    ELSE R("/falhou", 302, "redirect:/pagamento",
           "Pagamento nao concluido. Tente novamente.", NoLog)

calculadora_view(db, uid) ==
    IF uid = 0 THEN unauthorized("/calculadora")
    ELSE IF ~db[uid].premium
    THEN R("/calculadora", 302, "redirect:/pagamento",
           "Acesso restrito. Realize o pagamento.", NoLog)
    ELSE R("/calculadora", 200, "render:calculadora.html", "", NoLog)

\* esqueci_senha: mail is the set of tokens sent
esqueci_senha_view(db, method, email, now) ==
    IF method = "GET"
    THEN [mail |-> {},
          resp |-> R("/esqueci-senha", 200, "render:esqueci_senha.html", "", NoLog)]
    ELSE IF filter_by_email(db, email) # 0
    THEN [mail |-> {dumps(email, "recuperar-senha", now)},
          resp |-> R("/esqueci-senha", 302, "redirect:/login",
                     "E-mail enviado com o link para redefinir sua senha.", NoLog)]
    ELSE [mail |-> {},
          resp |-> R("/esqueci-senha", 200, "render:esqueci_senha.html",
                     "E-mail nao encontrado.", NoLog)]

\* redefinir_senha: uid is the row written, 0 when none
redefinir_senha_view(db, method, token, nova_senha, salt, now) ==
    LET ok == loads(token, "recuperar-senha", max_age, now)
        u == filter_by_email(db, token.payload)
    IN
    IF ok = "SignatureExpired"
    THEN [db |-> db, uid |-> 0,
          resp |-> R("/redefinir-senha", 200, "Link expirado.", "", NoLog)]
    ELSE IF ok = "BadSignature"
    THEN [db |-> db, uid |-> 0,
          resp |-> R("/redefinir-senha", 200, "Link invalido.", "", NoLog)]
    ELSE IF method = "POST" /\ u # 0
    THEN [db |-> set_senha(db, u, db[u], hashpw(nova_senha, salt)), uid |-> u,
          resp |-> R("/redefinir-senha", 302, "redirect:/login",
                     "Senha redefinida com sucesso.", NoLog)]
    ELSE [db |-> db, uid |-> 0,
          resp |-> R("/redefinir-senha", 200, "render:redefinir_senha.html", "", NoLog)]

logout_view(uid) ==
    IF uid = 0
    THEN [uid |-> 0, resp |-> unauthorized("/logout")]
    ELSE [uid |-> 0, resp |-> R("/logout", 302, "redirect:/", "", NoLog)]

\* ------------------------------------------------------------------ webhook
Methods == {"GET", "POST"}

\* The request body of POST /webhook.  ctype: "json" (Content-Type JSON and a
\* body that parses), "malformed" (Content-Type JSON, body empty or not JSON),
\* "other" (another Content-Type).  kind: what the parsed value is.  status is
\* a status the sender put into the payload.
Body(ctype, kind, type, id, status) ==
    [ctype |-> ctype, kind |-> kind, type |-> type, id |-> id, status |-> status]

Bodies ==
    {Body("malformed", "none", "none", NoId, "none"),
     Body("other", "none", "none", NoId, "none"),
     Body("json", "null", "none", NoId, "none"),
     Body("json", "list", "none", NoId, "none")}
    \cup {Body("json", "dict", t, NoId, "approved") :
            t \in {"payment", "merchant_order", "none"}}
    \cup {Body("json", "dict", "payment", i, st) :
            i \in PaymentIds, st \in {"approved", "none"}}

\* What sdk.payment().get(id) gives: it raises ("timeout"), returns a dict
\* without "response" ("no_response"), or a dict whose "response" holds a
\* status and, unless payer = NoEmail, payer.email.
Gw(kind, status, payer) == [kind |-> kind, status |-> status, payer |-> payer]

GatewayResponses ==
    {Gw("timeout", "none", NoEmail), Gw("no_response", "none", NoEmail)}
    \cup {Gw("ok", "approved", p) : p \in Emails \cup {NoEmail}}
    \cup {Gw("ok", st, E1) : st \in {"pending", "rejected", "404"}}

Gateways == [PaymentIds -> GatewayResponses]

sdk_payment_get(gw, payment_id) == gw[payment_id]

\* The requests POST /webhook is given: a body, the gateway's answers and
\* whether Werkzeug is strict about the Content-Type.  The gateway's answers
\* vary only for a body that makes the handler query it, strictness only for a
\* body it applies to.
Unreachable == [i \in PaymentIds |-> Gw("timeout", "none", NoEmail)]

WebhookRequests ==
    {q \in Bodies \X Gateways \X BOOLEAN :
        /\ q[3] => q[1].ctype = "other"
        /\ q[2] # Unreachable => (q[1].type = "payment" /\ q[1].id # NoId)}

Ack(log) == R("/webhook", 200, "", "", log)

\* print(request.json), before the try: Werkzeug raises 400 on a JSON body that
\* does not parse and, from 2.1 on (strict), 415 on another Content-Type.
request_json(body, strict) ==
    IF body.ctype = "malformed" THEN 400
    ELSE IF body.ctype = "other" /\ strict THEN 415
    ELSE 200

\* Fault: the status is taken from the inbound payload.
webhook_status_payload(body, gw) == body.status

\* The status the handler decides on
webhook_status(body, gw) == sdk_payment_get(gw, body.id).status

\* webhook, up to the query for the payer's row.  uid # 0: that row is to be
\* set and committed; uid = 0: the request ends with resp.
webhook_read(db, body, gw, strict) ==
    LET pre == request_json(body, strict) IN
    IF pre # 200
    THEN [uid |-> 0, email |-> NoEmail,
          resp |-> R("/webhook", pre, "HTTPException", "", NoLog)]
    ELSE IF body.ctype = "other" \/ body.kind = "null"
    THEN [uid |-> 0, email |-> NoEmail, resp |-> Ack(<<"Webhook sem tipo 'payment'">>)]
    ELSE IF body.kind = "list"
    THEN [uid |-> 0, email |-> NoEmail, resp |-> Ack(<<"Erro no webhook">>)]
    ELSE IF body.type # "payment"
    THEN [uid |-> 0, email |-> NoEmail, resp |-> Ack(<<"Webhook sem tipo 'payment'">>)]
    ELSE IF body.id = NoId
    THEN [uid |-> 0, email |-> NoEmail, resp |-> Ack(<<"Erro no webhook">>)]
    ELSE LET payment == sdk_payment_get(gw, body.id) IN
    IF payment.kind # "ok"
    THEN [uid |-> 0, email |-> NoEmail, resp |-> Ack(<<"Erro no webhook">>)]
    ELSE IF webhook_status(body, gw) # "approved"
    THEN [uid |-> 0, email |-> NoEmail,
          resp |-> Ack(<<"Pagamento com status", payment.status>>)]
    ELSE IF payment.payer = NoEmail
    THEN [uid |-> 0, email |-> NoEmail, resp |-> Ack(<<"Erro no webhook">>)]
    ELSE IF filter_by_email(db, payment.payer) = 0
    THEN [uid |-> 0, email |-> payment.payer,
          resp |-> Ack(<<"Usuario nao encontrado">>)]
    ELSE [uid |-> filter_by_email(db, payment.payer), email |-> payment.payer,
          resp |-> Ack(<<"Pagamento confirmado">>)]

\* Fault: the flag is inverted instead of set.
webhook_commit_toggle(db, uid, obj) == [db EXCEPT ![uid].premium = ~obj.premium]

\* usuario.premium = True; db.session.commit() of webhook
webhook_commit(db, uid, obj) == set_premium(db, uid, obj)

webhook_view(db, body, gw, strict) ==
    LET rd == webhook_read(db, body, gw, strict) IN
    [db |-> IF rd.uid # 0 THEN webhook_commit(db, rd.uid, db[rd.uid]) ELSE db,
     conf |-> IF rd.uid # 0 THEN {rd.email} ELSE {},
     resp |-> rd.resp]

\* --------------------------------------------------------------- requests
\* One action per route; each handles its request from start to end.

\* GET /
index ==
    /\ response' = R("/", 200, "render:index.html", "", NoLog)
    /\ UNCHANGED <<deploy, usuarios, session, mailbox, clock, inflight,
                   confirmados>>

registrar ==
    \E method \in Methods, email \in Emails, senha \in Senhas, salt \in Salts :
        LET r == registrar_view(deploy, usuarios, method, email, senha, salt) IN
        /\ Len(r.db) <= MaxUsuarios
        /\ usuarios' = r.db
        /\ response' = r.resp
        /\ UNCHANGED <<deploy, session, mailbox, clock, inflight, confirmados>>

login ==
    \E c \in Clients, method \in Methods, email \in Emails, senha \in Senhas :
        LET r == login_view(deploy, usuarios, session[c], method, email, senha) IN
        /\ session' = [session EXCEPT ![c] = r.uid]
        /\ response' = r.resp
        /\ UNCHANGED <<deploy, usuarios, mailbox, clock, inflight, confirmados>>

pagamento ==
    \E c \in Clients, method \in Methods, aluno \in {"sim", "nao"},
       pref \in {"init_point", "none"} :
        /\ response' = pagamento_view(deploy, usuarios, session[c], method, aluno, pref)
        /\ UNCHANGED <<deploy, usuarios, session, mailbox, clock, inflight,
                       confirmados>>

liberando_acesso_req(c) ==
    LET r == liberando_acesso_view(usuarios, session[c]) IN
    /\ deploy = "app.py"
    /\ usuarios' = r.db
    /\ response' = r.resp
    /\ UNCHANGED <<deploy, session, mailbox, clock, inflight, confirmados>>

liberando_acesso == \E c \in Clients : liberando_acesso_req(c)

pagamento_sucesso_req(c) ==
    LET r == pagamento_sucesso_view(usuarios, session[c]) IN
    /\ deploy = "app.py.py"
    /\ usuarios' = r.db
    /\ response' = r.resp
    /\ UNCHANGED <<deploy, session, mailbox, clock, inflight, confirmados>>

pagamento_sucesso == \E c \in Clients : pagamento_sucesso_req(c)

falhou ==
    \E c \in Clients :
        /\ response' = falhou_view(session[c])
        /\ UNCHANGED <<deploy, usuarios, session, mailbox, clock, inflight,
                       confirmados>>

calculadora_req(c) ==
    /\ response' = calculadora_view(usuarios, session[c])
    /\ UNCHANGED <<deploy, usuarios, session, mailbox, clock, inflight, confirmados>>

calculadora == \E c \in Clients : calculadora_req(c)

esqueci_senha ==
    \E method \in Methods, email \in Emails :
        LET r == esqueci_senha_view(usuarios, method, email, clock) IN
        /\ mailbox' = mailbox \cup r.mail
        /\ Cardinality(mailbox') <= MaxTokens
        /\ response' = r.resp
        /\ UNCHANGED <<deploy, usuarios, session, clock, inflight, confirmados>>

redefinir_senha_req(method, token, nova_senha, salt) ==
    LET r == redefinir_senha_view(usuarios, method, token, nova_senha, salt, clock) IN
    /\ usuarios' = r.db
    /\ response' = r.resp
    /\ UNCHANGED <<deploy, session, mailbox, clock, inflight, confirmados>>

redefinir_senha ==
    \E method \in Methods, token \in Presentable, nova_senha \in Senhas,
       salt \in Salts :
        redefinir_senha_req(method, token, nova_senha, salt)

logout ==
    \E c \in Clients :
        LET r == logout_view(session[c]) IN
        /\ session' = [session EXCEPT ![c] = r.uid]
        /\ response' = r.resp
        /\ UNCHANGED <<deploy, usuarios, mailbox, clock, inflight, confirmados>>

webhook_req(q) ==
    LET r == webhook_view(usuarios, q[1], q[2], q[3]) IN
    /\ deploy = "app.py"
    /\ usuarios' = r.db
    /\ confirmados' = confirmados \cup r.conf
    /\ response' = r.resp
    /\ UNCHANGED <<deploy, session, mailbox, clock, inflight>>

webhook == \E q \in WebhookRequests : webhook_req(q)

\* Time passes between requests.
Tick ==
    \E t \in Instants :
        /\ t > clock
        /\ clock' = t
        /\ UNCHANGED <<deploy, usuarios, session, mailbox, inflight, confirmados,
                       response>>

Next ==
    \/ index
    \/ registrar
    \/ login
    \/ pagamento
    \/ liberando_acesso
    \/ pagamento_sucesso
    \/ falhou
    \/ calculadora
    \/ esqueci_senha
    \/ redefinir_senha
    \/ logout
    \/ webhook

Spec == Init /\ [][Next]_vars

\* --------------------------------------------------- concurrent requests
\* A handler that writes queries the table first and commits later; requests of
\* other clients are served in between.  A request between its query and its
\* commit is in `inflight`, with what it read (the row id and the object loaded
\* from it) and what it is about to write.
Req(kind, uid, obj, email, hash) ==
    [kind |-> kind, uid |-> uid, obj |-> obj, email |-> email, hash |-> hash]

NoHash == <<>>

NoObj == Usuario(NoEmail, NoHash)

Pending == BagToSet(inflight)

start(req) == inflight (+) SetToBag({req})

finish(req) == inflight (-) SetToBag({req})

registrar_begin ==
    \E email \in Emails, senha \in Senhas, salt \in Salts :
        LET chk == registrar_check(deploy, usuarios, "POST", email) IN
        /\ BagCardinality(inflight) < MaxInflight
        /\ IF chk.body = "go"
           THEN /\ inflight' = start(Req("registrar", 0, NoObj, email, hashpw(senha, salt)))
                /\ UNCHANGED response
           ELSE /\ response' = chk
                /\ UNCHANGED inflight
        /\ UNCHANGED <<deploy, usuarios, session, mailbox, clock, confirmados>>

registrar_end ==
    \E req \in Pending :
        LET r == registrar_commit(usuarios, req.email, req.hash) IN
        /\ req.kind = "registrar"
        /\ Len(r.db) <= MaxUsuarios
        /\ usuarios' = r.db
        /\ response' = r.resp
        /\ inflight' = finish(req)
        /\ UNCHANGED <<deploy, session, mailbox, clock, confirmados>>

NextRegistro ==
    \/ registrar_begin
    \/ registrar_end

SpecRegistro == Init /\ [][NextRegistro]_vars

webhook_begin ==
    \E q \in WebhookRequests :
        LET rd == webhook_read(usuarios, q[1], q[2], q[3]) IN
        /\ deploy = "app.py"
        /\ BagCardinality(inflight) < MaxInflight
        /\ IF rd.uid # 0
           THEN /\ inflight' = start(Req("webhook", rd.uid, usuarios[rd.uid], rd.email, NoHash))
                /\ UNCHANGED response
           ELSE /\ response' = rd.resp
                /\ UNCHANGED inflight
        /\ UNCHANGED <<deploy, usuarios, session, mailbox, clock, confirmados>>

webhook_end_req(req) ==
    /\ req.kind = "webhook"
    /\ usuarios' = webhook_commit(usuarios, req.uid, req.obj)
    /\ confirmados' = confirmados \cup {req.email}
    /\ response' = Ack(<<"Pagamento confirmado">>)
    /\ inflight' = finish(req)
    /\ UNCHANGED <<deploy, session, mailbox, clock>>

webhook_end == \E req \in Pending : webhook_end_req(req)

pagamento_sucesso_begin ==
    \E c \in Clients :
        /\ deploy = "app.py.py"
        /\ BagCardinality(inflight) < MaxInflight
        /\ IF session[c] # 0
           THEN /\ inflight' = start(Req("sucesso", session[c], usuarios[session[c]],
                                         NoEmail, NoHash))
                /\ UNCHANGED response
           ELSE /\ response' = unauthorized("/pagamento-sucesso")
                /\ UNCHANGED inflight
        /\ UNCHANGED <<deploy, usuarios, session, mailbox, clock, confirmados>>

pagamento_sucesso_end_req(req) ==
    /\ req.kind = "sucesso"
    /\ usuarios' = set_premium(usuarios, req.uid, req.obj)
    /\ response' = R("/pagamento-sucesso", 302, "redirect:/calculadora",
                     "Pagamento confirmado com sucesso! Acesso liberado.", NoLog)
    /\ inflight' = finish(req)
    /\ UNCHANGED <<deploy, session, mailbox, clock, confirmados>>

pagamento_sucesso_end == \E req \in Pending : pagamento_sucesso_end_req(req)

redefinir_senha_begin ==
    \E token \in Presentable, nova_senha \in Senhas, salt \in Salts :
        LET r == redefinir_senha_view(usuarios, "POST", token, nova_senha, salt, clock) IN
        /\ BagCardinality(inflight) < MaxInflight
        /\ IF r.uid # 0
           THEN /\ inflight' = start(Req("redefinir", r.uid, usuarios[r.uid], NoEmail,
                                         hashpw(nova_senha, salt)))
                /\ UNCHANGED response
           ELSE /\ response' = r.resp
                /\ UNCHANGED inflight
        /\ UNCHANGED <<deploy, usuarios, session, mailbox, clock, confirmados>>

redefinir_senha_end_req(req) ==
    /\ req.kind = "redefinir"
    /\ usuarios' = set_senha(usuarios, req.uid, req.obj, req.hash)
    /\ response' = R("/redefinir-senha", 302, "redirect:/login",
                     "Senha redefinida com sucesso.", NoLog)
    /\ inflight' = finish(req)
    /\ UNCHANGED <<deploy, session, mailbox, clock, confirmados>>

redefinir_senha_end == \E req \in Pending : redefinir_senha_end_req(req)

\* The state after POST /registrar for E1 and for E2, both with "p1", POST
\* /esqueci-senha for E1 and POST /login of E1 (a state of Spec): two accounts
\* to race on, a reset token and a session.
InitRace ==
    /\ deploy \in Builds
    /\ usuarios = <<Usuario(E1, hashpw("p1", "s1")), Usuario(E2, hashpw("p1", "s1"))>>
    /\ session = [c \in Clients |-> 1]
    /\ mailbox = {dumps(E1, "recuperar-senha", 0)}
    /\ clock = 0
    /\ inflight = EmptyBag
    /\ confirmados = {}
    /\ response = R("/login", 302, "redirect:/pagamento", "", NoLog)

NextRace ==
    \/ webhook_begin
    \/ webhook_end
    \/ pagamento_sucesso_begin
    \/ pagamento_sucesso_end
    \/ redefinir_senha_begin
    \/ redefinir_senha_end

SpecRace == InitRace /\ [][NextRace]_vars

\* The reset-token lifecycle, with time passing
NextToken ==
    \/ registrar
    \/ esqueci_senha
    \/ redefinir_senha
    \/ webhook
    \/ Tick

SpecToken == Init /\ [][NextToken]_vars

\* ------------------------------------------------------------------ claims
\* The table with the flag of every account of identity e set.
Entitled(db, e) ==
    [i \in 1..Len(db) |->
        IF db[i].email = e THEN [db[i] EXCEPT !.premium = TRUE] ELSE db[i]]

\* The table with the flag of the row uid set.
EntitledId(db, uid) ==
    [i \in 1..Len(db) |->
        IF i = uid THEN [db[i] EXCEPT !.premium = TRUE] ELSE db[i]]

\* The table with the credential hash of the row uid replaced.
Rehashed(db, uid, hash) ==
    [i \in 1..Len(db) |->
        IF i = uid THEN [db[i] EXCEPT !.senha = hash] ELSE db[i]]

\* A webhook request of type "payment" whose re-query reports "approved" for payer e.
Approves(q, e) ==
    /\ q[1].ctype = "json" /\ q[1].kind = "dict" /\ q[1].type = "payment"
    /\ q[1].id \in PaymentIds
    /\ q[2][q[1].id] = Gw("ok", "approved", e)

\* C1: an entitlement flag that is true stays true in every step of every
\* request (register, login, logout, payment, callbacks, reset, webhook).
C1_Monotonic ==
    [][\A i \in 1..Len(usuarios) :
          usuarios[i].premium => (i <= Len(usuarios') /\ usuarios'[i].premium)]_vars

\* C1 witness: an entitled account whose password was just reset.
C1_Witness ==
    /\ response.route = "/redefinir-senha" /\ response.status = 302
    /\ \E i \in 1..Len(usuarios) :
          usuarios[i].premium /\ usuarios[i].senha = hashpw("p2", "s1")

\* C2: an account's flag is true only if a "payment" webhook was processed whose
\* re-query returned "approved" with that account as payer.
C2_OnlyGatewayConfirmed ==
    \A i \in 1..Len(usuarios) :
        usuarios[i].premium => usuarios[i].email \in confirmados

\* C3: every response of POST /webhook is 200 with an empty body.
C3_AlwaysAck ==
    response.route = "/webhook" => (response.status = 200 /\ response.body = "")

\* C4: a "payment" webhook whose re-query reports "approved" and payer e sets the
\* flag of the account of identity e, changes nothing else, changes nothing when
\* no such account exists, and answers 200.
ApprovedRequests == {x \in WebhookRequests \X Emails : Approves(x[1], x[2])}

C4_ApprovedEntitlesPayer ==
    [][response'.route = "/webhook"
          => \A x \in ApprovedRequests :
                webhook_req(x[1])
                    => /\ usuarios' = Entitled(usuarios, x[2])
                       /\ response'.status = 200 /\ response'.body = ""]_vars

\* C4 witness: the webhook confirmed one of two accounts; the other is untouched.
C4_Witness ==
    /\ response = Ack(<<"Pagamento confirmado">>)
    /\ \E i, j \in 1..Len(usuarios) :
          /\ usuarios[i].premium /\ usuarios[i].email \in confirmados
          /\ ~usuarios[j].premium

\* C5: a webhook whose type is not "payment", whose lookup fails or whose
\* re-queried status is not "approved" leaves the table as it was: no step that
\* changes the table is such a request.
C5_Ignored(q) ==
    \/ q[1].type # "payment"
    \/ /\ q[1].id \in PaymentIds
       /\ \/ q[2][q[1].id].kind # "ok"
          \/ q[2][q[1].id].status # "approved"

IgnoredRequests == {q \in WebhookRequests : C5_Ignored(q)}

C5_OthersMutateNothing ==
    [][usuarios' # usuarios => \A q \in IgnoredRequests : ~webhook_req(q)]_vars

\* C5 witness: a pending payment of E1 was reported while E1's account exists
\* and is not entitled.
C5_Witness ==
    /\ response = Ack(<<"Pagamento com status", "pending">>)
    /\ \E i \in 1..Len(usuarios) : usuarios[i].email = E1 /\ ~usuarios[i].premium

\* C6: /calculadora redirects to login without a session, redirects to
\* /pagamento with a session whose flag is false, and is served otherwise.
C6_Gate ==
    [][\A c \in Clients :
          calculadora_req(c)
              => response'.body =
                    (IF session[c] = 0 THEN "redirect:/login"
                     ELSE IF usuarios[session[c]].premium
                     THEN "render:calculadora.html"
                     ELSE "redirect:/pagamento")]_vars

\* C7: no two rows share an identity, and a registration that is refused is
\* answered with a message and the registration form, also when the existence
\* checks and inserts of two registrations interleave.
C7_UniqueAndRejected ==
    /\ \A i, j \in 1..Len(usuarios) :
          i # j => usuarios[i].email # usuarios[j].email
    /\ (response.route = "/registrar"
            /\ response.body \notin {"redirect:/login", "render:registrar.html"})
         => (response.body = "redirect:/registrar" /\ response.flash # "")

\* C8 as stated: either success callback, with a session, sets the flag of the
\* current account and of no other.
C8_Original ==
    [][\A c \in Clients :
          ((liberando_acesso_req(c) \/ pagamento_sucesso_req(c)) /\ session[c] # 0)
              => usuarios' = EntitledId(usuarios, session[c])]_vars

\* C8 amended: /pagamento-sucesso (app.py.py), with a session, sets the flag of
\* the current account and of no other, with no gateway confirmation;
\* /liberando-acesso (app.py) changes no account.
C8_Amended ==
    [][\A c \in Clients :
          /\ (pagamento_sucesso_req(c) /\ session[c] # 0)
                => /\ usuarios' = EntitledId(usuarios, session[c])
                   /\ confirmados' = confirmados
          /\ liberando_acesso_req(c) => usuarios' = usuarios]_vars

\* C8 witness: /pagamento-sucesso entitled the current account, another is not.
C8_Witness ==
    /\ response.route = "/pagamento-sucesso" /\ response.status = 302
    /\ \E c \in Clients :
          /\ session[c] # 0 /\ usuarios[session[c]].premium
          /\ \E j \in 1..Len(usuarios) : ~usuarios[j].premium

\* C9: in every interleaving, the commit of a webhook delivery or of the
\* success callback ends without error and changes exactly the flag of its
\* account to true (no credential hash written meanwhile is lost), and the
\* commit of a password reset changes exactly the credential hash of its account.
C9_RaceSafe ==
    [][\A req \in Pending :
          /\ (webhook_end_req(req) \/ pagamento_sucesso_end_req(req))
                => /\ usuarios' = EntitledId(usuarios, req.uid)
                   /\ response'.status \in {200, 302}
          /\ redefinir_senha_end_req(req)
                => /\ usuarios' = Rehashed(usuarios, req.uid, req.hash)
                   /\ response'.status = 302]_vars

\* C9 witness: a flag commit was made while another flag request, which read
\* the flag as false, is still to commit, on an account whose password was reset.
C9_Witness ==
    /\ response.status \in {200, 302}
    /\ response.route \in {"/webhook", "/pagamento-sucesso"}
    /\ \E req \in Pending :
          /\ req.kind \in {"webhook", "sucesso"}
          /\ ~req.obj.premium
          /\ usuarios[req.uid].premium
          /\ usuarios[req.uid].senha = hashpw("p2", "s1")

\* C10: a mailed token is accepted whenever its age is at most 3600 seconds,
\* however often it was used, and refused as expired after that; an accepted
\* POST replaces the credential hash of the token's account and nothing else.
C10_TokenWindow ==
    [][\A method \in Methods, token \in mailbox, nova \in Senhas, salt \in Salts :
          redefinir_senha_req(method, token, nova, salt)
              => IF clock - token.ts <= 3600
                 THEN IF method = "POST"
                      THEN /\ response'.body = "redirect:/login"
                           /\ usuarios' =
                                Rehashed(usuarios,
                                         filter_by_email(usuarios, token.payload),
                                         hashpw(nova, salt))
                           /\ filter_by_email(usuarios, token.payload) # 0
                      ELSE /\ response'.body = "render:redefinir_senha.html"
                           /\ usuarios' = usuarios
                 ELSE /\ response'.body = "Link expirado."
                      /\ usuarios' = usuarios]_vars

\* C10 witness: a token exactly 3600 seconds old has reset the password of an
\* entitled account.
C10_Witness ==
    /\ response.route = "/redefinir-senha" /\ response.status = 302
    /\ \E t \in mailbox :
          /\ clock - t.ts = 3600
          /\ \E i \in 1..Len(usuarios) :
                /\ usuarios[i].email = t.payload
                /\ usuarios[i].senha = hashpw("p2", "s1")
                /\ usuarios[i].premium
====
